---- MODULE Spec2Model ----
(***************************************************************************)
(* Model of the parameter-mapping layer (firecrown/connector/mapping.py),  *)
(* the configuration parser's parameter reduction (firecrown/parser.py),   *)
(* the Student-t likelihood (likelihood/gauss_family/student_t.py) and the *)
(* two-point theory calculator (tjpcosmo/models/twopoint/calculator.py).   *)
(*                                                                         *)
(* Python values are records [t, v, items]: t is the Python type, v the    *)
(* number held (fixed point, see the units below) and items the elements   *)
(* of a list.  Raw cosmological values are in hundredths; Neff is in       *)
(* thousandths, T_CMB in ten-thousandths and m_nu in units of 1e-8, so     *)
(* that 3.046, 2.7255 and 93.14 are exact.                                 *)
(***************************************************************************)
EXTENDS Integers, Sequences, FiniteSets, TLC

VARIABLES
    call,            \* the last call of a pure function: [fn, arg, after, out]
    student,         \* the StudentT instance, or NoObject
    loglike,         \* the last compute_loglike evaluation on it
    config,          \* the calculator's configuration document
    pc,              \* the calculator's lifecycle state
    systematics,     \* self.systematics: name -> object [kind, point]
    output_systematics,     \* keys of self.output_systematics, in order
    cosmology_systematics,  \* keys of self.cosmology_systematics, in order
    source_systematics,     \* keys of self.source_systematics, in order
    sources,         \* self.sources: sequence of [name, systematics]
    error,           \* the exception the last calculator operation raised
    run_point,       \* the parameter point of the last run
    run_log          \* the steps the last run executed, in order

vars == <<call, student, loglike, config, pc, systematics, output_systematics,
          cosmology_systematics, source_systematics, sources, error,
          run_point, run_log>>

pureVars == <<call>>
likeVars == <<student, loglike>>
calcVars == <<config, pc, systematics, output_systematics,
              cosmology_systematics, source_systematics, sources, error,
              run_point, run_log>>

----------------------------------------------------------------------------
(* Python values and exceptions                                            *)

PyFloat(n) == [t |-> "float", v |-> n, items |-> <<>>]
PyInt(n) == [t |-> "int", v |-> n, items |-> <<>>]
PyStr(n) == [t |-> "str", v |-> n, items |-> <<>>]
PyList(s) == [t |-> "list", v |-> 0, items |-> s]
None == [t |-> "none", v |-> 0, items |-> <<>>]

\* the string "normal" (mapping.py line 131), as a Str value
NORMAL == PyStr(1)

Return(x) == [ok |-> TRUE, exc |-> "", msg |-> "", val |-> x]
Raise(e, m) == [ok |-> FALSE, exc |-> e, msg |-> m, val |-> None]

\* bool(x) of a Python number
Truthy(x) == x.v # 0

----------------------------------------------------------------------------
(* mapping.py: require_type and the PyCCLCosmologyConstants constructor    *)

\* the typename of the TypeError message
TypeName(typ) == IF typ = "str" THEN "string" ELSE typ

require_type(val, typ) ==
    IF val.t = typ THEN Return(val)
    ELSE Raise("TypeError", TypeName(typ) \o " value is required")

require_float(val) == require_type(val, "float")

require_string(val) == require_type(val, "str")

\* the checks of lines 74-76 and of lines 87-95, in the order they run
BeforeAmplitude == <<"Omega_c", "Omega_b", "h">>
AfterAmplitude == <<"n_s", "Omega_k", "Neff", "m_nu", "m_nu_type", "w0", "wa", "T_CMB">>

Require(a, f) == IF f = "m_nu_type" THEN require_string(a[f]) ELSE require_float(a[f])

AllPass(a, fs) == \A i \in 1..Len(fs) : Require(a, fs[i]).ok

FirstFailure(a, fs) ==
    Require(a, fs[CHOOSE i \in 1..Len(fs) :
                    /\ ~Require(a, fs[i]).ok
                    /\ \A j \in 1..(i - 1) : Require(a, fs[j]).ok])

AMBIGUOUS_MSG == "Exactly one of A_s and sigma8 must be supplied"

\* lines 78-79: the only amplitude test that raises ValueError
BothSupplied(a) == a.A_s # None /\ a.sigma8 # None

PyCCLCosmologyConstants(a) ==
    IF ~AllPass(a, BeforeAmplitude) THEN FirstFailure(a, BeforeAmplitude)
    ELSE IF BothSupplied(a) THEN Raise("ValueError", AMBIGUOUS_MSG)
    ELSE IF a.sigma8 = None /\ ~require_float(a.A_s).ok THEN require_float(a.A_s)
    ELSE IF a.sigma8 # None /\ ~require_float(a.sigma8).ok THEN require_float(a.sigma8)
    ELSE IF ~AllPass(a, AfterAmplitude) THEN FirstFailure(a, AfterAmplitude)
    ELSE Return([Omega_c |-> a.Omega_c, Omega_b |-> a.Omega_b, h |-> a.h,
                 A_s |-> IF a.sigma8 = None THEN a.A_s ELSE None,
                 sigma8 |-> IF a.sigma8 = None THEN None ELSE a.sigma8,
                 n_s |-> a.n_s, Omega_k |-> a.Omega_k, Omega_g |-> None,
                 Neff |-> a.Neff, m_nu |-> a.m_nu, m_nu_type |-> a.m_nu_type,
                 w0 |-> a.w0, wa |-> a.wa, T_CMB |-> a.T_CMB])

----------------------------------------------------------------------------
(* mapping.py: from_cosmosis_camb                                          *)

NEFF_BASELINE == 3046
MNU_FACTOR == 9314
T_CMB_PLACEHOLDER == 27255

\* a faulty d[key]: an absent key silently reads as 0.0
Subscript_defaulting(d, key) ==
    Return(IF key \in DOMAIN d THEN d[key] ELSE PyFloat(0))

\* d[key] of a dict: the value, or KeyError naming the key
Subscript(d, key) ==
    IF key \in DOMAIN d THEN Return(d[key]) ELSE Raise("KeyError", key)

\* dict.get(key, default)
Get(d, key, default) == IF key \in DOMAIN d THEN d[key] ELSE default

\* the subscripted reads of lines 121-133, in the order they run
SubscriptedKeys == <<"omega_c", "omega_b", "h0", "sigma_8", "n_s", "omega_k",
                     "omega_nu", "w", "wa">>

FirstMissing(d) ==
    Subscript(d, SubscriptedKeys[CHOOSE i \in 1..Len(SubscriptedKeys) :
                    /\ ~Subscript(d, SubscriptedKeys[i]).ok
                    /\ \A j \in 1..(i - 1) : Subscript(d, SubscriptedKeys[j]).ok])

\* line 129: delta_neff (hundredths) + 3.046, a float whatever delta_neff is
NeffOf(d) == PyFloat(Get(d, "delta_neff", PyFloat(0)).v * 10 + NEFF_BASELINE)

\* line 130: omega_nu * h * h * 93.14, a float whatever the operands are
MnuOf(d) ==
    PyFloat(Subscript(d, "omega_nu").val.v * Subscript(d, "h0").val.v
            * Subscript(d, "h0").val.v * MNU_FACTOR)

\* unary minus keeps the operand's type
Negate(x) == [x EXCEPT !.v = 0 - x.v]

\* line 145: the wa handed to the constructor
CambWa(d) == Negate(Subscript(d, "wa").val)

from_cosmosis_camb(d) ==
    IF \E i \in 1..Len(SubscriptedKeys) : ~Subscript(d, SubscriptedKeys[i]).ok
    THEN FirstMissing(d)
    ELSE PyCCLCosmologyConstants(
            [Omega_c |-> Subscript(d, "omega_c").val,
             Omega_b |-> Subscript(d, "omega_b").val,
             h |-> Subscript(d, "h0").val,
             A_s |-> None,
             sigma8 |-> Subscript(d, "sigma_8").val,
             n_s |-> Subscript(d, "n_s").val,
             Omega_k |-> Subscript(d, "omega_k").val,
             Neff |-> NeffOf(d), m_nu |-> MnuOf(d), m_nu_type |-> NORMAL,
             w0 |-> Subscript(d, "w").val, wa |-> CambWa(d),
             T_CMB |-> PyFloat(T_CMB_PLACEHOLDER)])

----------------------------------------------------------------------------
(* calculator.py: convert_cosmobase_to_ccl                                 *)

\* line 29: the test that guards the massive-neutrino rejection
HasNeutrinos(cb) == Truthy(PyFloat(cb["omega_n_rel"].v + cb["omega_n_mass"].v))

\* lines 34-42: the amplitude read, 0.0 standing for an absent key
Sigma8Of(cb) == IF "sigma_8" \in DOMAIN cb THEN cb["sigma_8"] ELSE PyFloat(0)
AsOf(cb) == IF "a_s" \in DOMAIN cb THEN cb["a_s"] ELSE PyFloat(0)

\* lines 32, 50, 53: the wa handed to ccl.Parameters
CclWa(cb) == cb["wa"]

\* ccl.Parameters(...): the keyword arguments it is built from
Parameters(cb, sigma8, A_s) ==
    [Omega_c |-> cb["omega_c"], Omega_b |-> cb["omega_b"],
     Omega_k |-> cb["omega_k"], w0 |-> cb["w0"], wa |-> CclWa(cb),
     sigma8 |-> sigma8, A_s |-> A_s, n_s |-> cb["n_s"], h |-> cb["h"]]

NEUTRINO_MSG == "cosmo_base doesn't handle massive neutrinos yet"
BOTH_MSG == "Specifying both sigma8 and A_s: pick one"
NEITHER_MSG == "Need either sigma 8 or A_s in pyccl."

convert_cosmobase_to_ccl(cb) ==
    IF HasNeutrinos(cb) THEN Raise("ValueError", NEUTRINO_MSG)
    ELSE IF Truthy(Sigma8Of(cb)) /\ Truthy(AsOf(cb)) THEN Raise("ValueError", BOTH_MSG)
    ELSE IF Truthy(Sigma8Of(cb)) THEN Return(Parameters(cb, Sigma8Of(cb), None))
    ELSE IF Truthy(AsOf(cb)) THEN Return(Parameters(cb, None, AsOf(cb)))
    ELSE Raise("ValueError", NEITHER_MSG)

----------------------------------------------------------------------------
(* parser.py: the reduction of data['parameters'], lines 46-52             *)

IsList(val) == val.t = "list"

\* val[1] of a list
Subscript1(val) ==
    IF Len(val.items) >= 2 THEN Return(val.items[2])
    ELSE Raise("IndexError", "list index out of range")

ReduceValue(val) == IF IsList(val) THEN Subscript1(val) ELSE Return(val)

parse(parameters) ==
    IF \E p \in DOMAIN parameters : ~ReduceValue(parameters[p]).ok
    THEN Raise("IndexError", "list index out of range")
    ELSE [ok |-> TRUE, exc |-> "", msg |-> "",
          val |-> [p \in DOMAIN parameters |-> ReduceValue(parameters[p]).val]]

----------------------------------------------------------------------------
(* student_t.py: StudentT                                                  *)

NoObject == [nu |-> 0 - 1, made |-> FALSE]

\* lines 26-28: line 27 is read as the call of the base-class initialiser,
\* which takes the statistics; line 28 stores nu as given
StudentT(nu) == [nu |-> nu, made |-> TRUE]

\* line 43: the denominator of chi2 / (self.nu - 1.0)
Denominator(self) == self.nu - 1

\* line 43: -0.5 * nu * log(1 + chi2 / (nu - 1)).  The logarithm is not
\* computed; the evaluation is classified by what the division and the
\* logarithm do: a zero denominator divides by zero (ZeroDivisionError for a
\* Python float chi2, a non-finite value for a numpy one), a non-positive
\* argument of the logarithm gives a non-finite value.
compute_loglike(self, chi2) ==
    IF Denominator(self) = 0
    THEN {[nu |-> self.nu, chi2 |-> chi2, denominator |-> 0, value |-> w] :
            w \in {"ZeroDivisionError", "non-finite"}}
    ELSE {[nu |-> self.nu, chi2 |-> chi2, denominator |-> Denominator(self),
           value |-> IF (Denominator(self) + chi2) * Denominator(self) > 0
                     THEN "finite" ELSE "non-finite"]}

NotEvaluated == [nu |-> 0, chi2 |-> 0, denominator |-> 0, value |-> "none"]

----------------------------------------------------------------------------
(* calculator.py: TwoPointTheoryCalculator                                 *)

\* a reference that resolves to no object (dict.get returning None)
NoSys == 0

NoError == [exc |-> "", msg |-> "", sys |-> NoSys, source |-> ""]

\* Systematic.from_info(info): the object of the declared kind, holding the
\* nuisance values of no parameter point yet (point 0)
from_info(info) == [kind |-> info.kind, point |-> 0]

\* make_source(name, stype, metadata): a source with nothing attached
make_source(name) == [name |-> name, systematics |-> <<>>]

\* the keys of a dict built from the entries of sys_config, in order
Keys(sys_config) == [i \in 1..Len(sys_config) |-> sys_config[i].name]

\* a dict comprehension over self.systematics.items() keeping one class
KeysOfKind(sys_config, kind) ==
    Keys(SelectSeq(sys_config, LAMBDA e : from_info(e).kind = kind))

\* setup_systematics, lines 67-88
setup_systematics(sys_config) ==
    [systematics |-> [n \in {sys_config[i].name : i \in 1..Len(sys_config)} |->
                        from_info(CHOOSE e \in {sys_config[i] : i \in 1..Len(sys_config)} :
                                    e.name = n)],
     output_systematics |-> KeysOfKind(sys_config, "OutputSystematic"),
     cosmology_systematics |-> KeysOfKind(sys_config, "CosmologySystematic"),
     source_systematics |-> KeysOfKind(sys_config, "SourceSystematic")]

\* line 104: self.systematics.get(sys_name), a reference to the object or None
Lookup(table, sys_name) == IF sys_name \in DOMAIN table THEN sys_name ELSE NoSys

\* a faulty line 105: the test never fires
IsNone_never(sys) == FALSE

\* line 105: sys is None
IsNone(sys) == sys = NoSys

\* lines 101-108 for one source: the references it ends up holding
Attached(table, source_info) ==
    [j \in 1..Len(source_info.systematics) |-> Lookup(table, source_info.systematics[j])]

\* the first reference of a source that line 105 rejects (0 when none is)
FirstRejected(table, source_info) ==
    IF \E j \in 1..Len(source_info.systematics) : IsNone(Lookup(table, source_info.systematics[j]))
    THEN CHOOSE j \in 1..Len(source_info.systematics) :
            /\ IsNone(Lookup(table, source_info.systematics[j]))
            /\ \A k \in 1..(j - 1) : ~IsNone(Lookup(table, source_info.systematics[k]))
    ELSE 0

\* the first source whose loop raises (0 when none does)
FirstFailingSource(table, info) ==
    IF \E i \in 1..Len(info) : FirstRejected(table, info[i]) # 0
    THEN CHOOSE i \in 1..Len(info) :
            /\ FirstRejected(table, info[i]) # 0
            /\ \A k \in 1..(i - 1) : FirstRejected(table, info[k]) = 0
    ELSE 0

BuiltSource(table, source_info) ==
    [make_source(source_info.name) EXCEPT !.systematics = Attached(table, source_info)]

\* used_systematics once the loop of lines 96-109 has finished
UsedSystematics(info) ==
    UNION {{info[i].systematics[j] : j \in 1..Len(info[i].systematics)} :
                i \in 1..Len(info)}

NOT_DEFINED_MSG == "was specified for source but not defined in parameter file systematics section"
NEVER_USED_MSG == "was specified in param file but never used"

\* a faulty final loop: it tests every key of self.systematics
CheckedForUse_all(table_keys, source_keys) == table_keys

\* lines 111-113: the keys the final loop tests, in order
CheckedForUse(table_keys, source_keys) == source_keys

\* the first key the final loop finds unused (NoSys when none is)
FirstUnused(checked, used) ==
    IF \E i \in 1..Len(checked) : checked[i] \notin used
    THEN checked[CHOOSE i \in 1..Len(checked) :
                    /\ checked[i] \notin used
                    /\ \A k \in 1..(i - 1) : checked[k] \in used]
    ELSE NoSys

\* setup_sources, lines 92-113: self.sources as it is left, and the exception
setup_sources(table, table_keys, source_keys, info) ==
    LET bad == FirstFailingSource(table, info)
        unused == FirstUnused(CheckedForUse(table_keys, source_keys), UsedSystematics(info))
    IN  IF bad # 0
        THEN [sources |-> [i \in 1..(bad - 1) |-> BuiltSource(table, info[i])],
              error |-> [exc |-> "ValueError", msg |-> NOT_DEFINED_MSG,
                         sys |-> info[bad].systematics[FirstRejected(table, info[bad])],
                         source |-> info[bad].name]]
        ELSE IF unused # NoSys
        THEN [sources |-> [i \in 1..Len(info) |-> BuiltSource(table, info[i])],
              error |-> [exc |-> "ValueError", msg |-> NEVER_USED_MSG,
                         sys |-> unused, source |-> ""]]
        ELSE [sources |-> [i \in 1..Len(info) |-> BuiltSource(table, info[i])],
              error |-> NoError]

\* update_systematics, lines 115-117: the loop variable ranges over the keys
\* of self.systematics, which are strings, so the first sys.update raises
update_systematics(table) ==
    IF DOMAIN table = {} THEN NoError
    ELSE [exc |-> "AttributeError", msg |-> "'str' object has no attribute 'update'",
          sys |-> NoSys, source |-> ""]

\* make_tracers, lines 119-121: visits every source and builds nothing
make_tracers(srcs) == "make_tracers"

\* run, lines 123-141: the steps executed and the exception that ends them.
\* The update_systematics call of line 127 is commented out; line 135 reads
\* the undefined name `something`.
run(cb, srcs) ==
    IF ~convert_cosmobase_to_ccl(cb).ok
    THEN [log |-> <<"convert_cosmobase_to_ccl">>,
          error |-> [exc |-> convert_cosmobase_to_ccl(cb).exc,
                     msg |-> convert_cosmobase_to_ccl(cb).msg,
                     sys |-> NoSys, source |-> ""]]
    ELSE [log |-> <<"convert_cosmobase_to_ccl", "ccl.Cosmology", make_tracers(srcs)>>,
          error |-> [exc |-> "NameError", msg |-> "name 'something' is not defined",
                     sys |-> NoSys, source |-> ""]]

----------------------------------------------------------------------------
(* Inputs                                                                  *)

MaxListLen == 5
MaxNu == 12
MaxChi2 == 6
NumSys == 2
MaxRefs == 2
MaxPoints == 2

SeqsUpTo(S, n) == UNION {[1..k -> S] : k \in 0..n}

Restrict(f, K) == [k \in K |-> f[k]]

CtorArgs ==
    [Omega_c : {PyFloat(25), PyInt(1)}, Omega_b : {PyFloat(5)}, h : {PyFloat(70)},
     A_s : {None, PyFloat(2), PyInt(2)}, sigma8 : {None, PyFloat(80), PyInt(1)},
     n_s : {PyFloat(96)}, Omega_k : {PyFloat(0)}, Neff : {PyFloat(3046)},
     m_nu : {PyFloat(0)}, m_nu_type : {NORMAL, PyFloat(1)}, w0 : {PyFloat(0 - 100)},
     wa : {PyFloat(10), PyFloat(0 - 10), PyInt(0)}, T_CMB : {PyFloat(27255)}]

CambKeys == {"omega_c", "omega_b", "h0", "sigma_8", "n_s", "omega_k",
             "delta_neff", "omega_nu", "w", "wa"}

CambFull ==
    [omega_c : {PyFloat(25)}, omega_b : {PyFloat(5)}, h0 : {PyFloat(70)},
     sigma_8 : {PyFloat(80), PyInt(1)}, n_s : {PyFloat(96)}, omega_k : {PyFloat(0)},
     delta_neff : {PyFloat(0), PyFloat(50)}, omega_nu : {PyFloat(0), PyFloat(1)},
     w : {PyFloat(0 - 100)}, wa : {PyFloat(0 - 10), PyFloat(0), PyFloat(10)}]

CambDicts == {Restrict(f, K) : f \in CambFull, K \in SUBSET CambKeys}

CosmoBaseKeys == {"omega_c", "omega_b", "omega_k", "omega_n_rel", "omega_n_mass",
                  "w0", "wa", "h", "n_s"}

CosmoBaseFull ==
    [omega_c : {PyFloat(25)}, omega_b : {PyFloat(5)}, omega_k : {PyFloat(0)},
     omega_n_rel : {PyFloat(0 - 1), PyFloat(0), PyFloat(1)},
     omega_n_mass : {PyFloat(0 - 1), PyFloat(0), PyFloat(1)},
     w0 : {PyFloat(0 - 100)}, wa : {PyFloat(0 - 10), PyFloat(0), PyFloat(10)},
     h : {PyFloat(70)}, n_s : {PyFloat(96)},
     sigma_8 : {PyFloat(0), PyFloat(80)}, a_s : {PyFloat(0), PyFloat(2)}]

CosmoBases ==
    {Restrict(f, CosmoBaseKeys \cup K) : f \in CosmoBaseFull, K \in SUBSET {"sigma_8", "a_s"}}

ParseItems == {PyFloat(1), PyFloat(2)}

ParseValues ==
    {PyFloat(1), PyInt(2), PyStr(3)} \cup {PyList(s) : s \in SeqsUpTo(ParseItems, MaxListLen)}

ParseBlocks == UNION {[K -> ParseValues] : K \in SUBSET {"p", "q"}}

Kinds == {"SourceSystematic", "OutputSystematic", "CosmologySystematic"}

SourceNames == <<"lens", "src">>

\* systematics named 1..n in the order declared; a source may refer to any
\* name of 1..NumSys, declared or not
SysConfigs ==
    UNION {{[i \in 1..n |-> [name |-> i, kind |-> k[i]]] : k \in [1..n -> Kinds]} :
            n \in 0..NumSys}

SourceConfigs ==
    UNION {{[i \in 1..n |-> [name |-> SourceNames[i], systematics |-> r[i]]] :
                r \in [1..n -> SeqsUpTo(1..NumSys, MaxRefs)]} :
            n \in 0..Len(SourceNames)}

Configs == [systematics : SysConfigs, sources : SourceConfigs]

\* the parameter blocks a run is given
RunBases ==
    {cb \in CosmoBases :
        /\ cb["wa"] = PyFloat(0)
        /\ cb["omega_n_rel"] = PyFloat(0)
        /\ cb["omega_n_mass"] \in {PyFloat(0), PyFloat(1)}
        /\ "a_s" \notin DOMAIN cb
        /\ "sigma_8" \in DOMAIN cb
        /\ cb["sigma_8"] = PyFloat(80)}

----------------------------------------------------------------------------
(* State machines                                                          *)

NoCall == [fn |-> "none"]

EmptyConfig == [systematics |-> <<>>, sources |-> <<>>]

PureIdle == call = NoCall

LikeIdle == student = NoObject /\ loglike = NotEvaluated

CalcUnconfigured ==
    /\ pc = "Unconfigured"
    /\ systematics = <<>>
    /\ output_systematics = <<>>
    /\ cosmology_systematics = <<>>
    /\ source_systematics = <<>>
    /\ sources = <<>>
    /\ error = NoError
    /\ run_point = 0
    /\ run_log = <<>>

\* --- the pure functions of the mapping layer and the parser ---
\* call records one call, made from the idle state, with its argument as it
\* is left and its outcome

CallConstructor ==
    /\ PureIdle
    /\ \E a \in CtorArgs :
        call' = [fn |-> "PyCCLCosmologyConstants", arg |-> a, after |-> a,
                 out |-> PyCCLCosmologyConstants(a)]
    /\ UNCHANGED <<likeVars, calcVars>>

CallFromCosmosisCamb ==
    /\ PureIdle
    /\ \E d \in CambDicts :
        call' = [fn |-> "from_cosmosis_camb", arg |-> d, after |-> d,
                 out |-> from_cosmosis_camb(d)]
    /\ UNCHANGED <<likeVars, calcVars>>

CallConvert ==
    /\ PureIdle
    /\ \E cb \in CosmoBases :
        call' = [fn |-> "convert_cosmobase_to_ccl", arg |-> cb, after |-> cb,
                 out |-> convert_cosmobase_to_ccl(cb)]
    /\ UNCHANGED <<likeVars, calcVars>>

CallParse ==
    /\ PureIdle
    /\ \E b \in ParseBlocks :
        call' = [fn |-> "parse", arg |-> b, after |-> b, out |-> parse(b)]
    /\ UNCHANGED <<likeVars, calcVars>>

Init == PureIdle /\ LikeIdle /\ config = EmptyConfig /\ CalcUnconfigured

Next == CallConstructor \/ CallFromCosmosisCamb \/ CallConvert \/ CallParse

Spec == Init /\ [][Next]_vars

\* --- the Student-t likelihood ---

Construct ==
    /\ \E nu \in 0..MaxNu : student' = StudentT(nu)
    /\ loglike' = NotEvaluated
    /\ UNCHANGED <<pureVars, calcVars>>

ComputeLoglike ==
    /\ student.made
    /\ \E chi2 \in 0..MaxChi2 : loglike' \in compute_loglike(student, chi2)
    /\ UNCHANGED <<student, pureVars, calcVars>>

NextLike == Construct \/ ComputeLoglike

SpecLike == Init /\ [][NextLike]_vars

\* --- the two-point theory calculator ---

InitCalc == PureIdle /\ LikeIdle /\ config \in Configs /\ CalcUnconfigured

\* __init__, lines 59-64: setup_systematics, then setup_sources
Setup ==
    /\ pc = "Unconfigured"
    /\ LET built == setup_systematics(config.systematics)
           done == setup_sources(built.systematics, Keys(config.systematics),
                                 built.source_systematics, config.sources)
       IN  /\ systematics' = built.systematics
           /\ output_systematics' = built.output_systematics
           /\ cosmology_systematics' = built.cosmology_systematics
           /\ source_systematics' = built.source_systematics
           /\ sources' = done.sources
           /\ error' = done.error
           /\ pc' = IF done.error = NoError THEN "Ready" ELSE "Failed"
    /\ UNCHANGED <<config, run_point, run_log, pureVars, likeVars>>

\* the sampler hands over one parameter point after another
Run ==
    /\ pc = "Ready"
    /\ run_point < MaxPoints
    /\ \E cb \in RunBases :
        /\ run_point' = run_point + 1
        /\ run_log' = run(cb, sources).log
        /\ error' = run(cb, sources).error
    /\ UNCHANGED <<config, pc, systematics, output_systematics, cosmology_systematics,
                   source_systematics, sources, pureVars, likeVars>>

UpdateSystematics ==
    /\ pc = "Ready"
    /\ error' = update_systematics(systematics)
    /\ UNCHANGED <<config, pc, systematics, output_systematics, cosmology_systematics,
                   source_systematics, sources, run_point, run_log, pureVars, likeVars>>

NextCalc == Setup \/ Run \/ UpdateSystematics

SpecCalc == InitCalc /\ [][NextCalc]_vars

----------------------------------------------------------------------------
(* Properties                                                              *)

Range(s) == {s[i] : i \in 1..Len(s)}

Supplied(a) == {f \in {"A_s", "sigma8"} : a[f] # None}

OthersWellTyped(a) == AllPass(a, BeforeAmplitude) /\ AllPass(a, AfterAmplitude)

\* C1: construction succeeds only when exactly one of A_s and sigma8 is
\* supplied, a constructed record has exactly one of them non-null, and
\* construction with both or with neither raises the ambiguous-amplitude
\* error (the ValueError of line 79), the other arguments being well typed.
C1_AmplitudeExclusive ==
    call.fn = "PyCCLCosmologyConstants" =>
        /\ call.out.ok => Cardinality(Supplied(call.arg)) = 1
        /\ call.out.ok => Cardinality(Supplied(call.out.val)) = 1
        /\ (OthersWellTyped(call.arg) /\ Cardinality(Supplied(call.arg)) # 1) =>
              /\ ~call.out.ok
              /\ call.out.exc = "ValueError"
              /\ call.out.msg = AMBIGUOUS_MSG

SetupDone == pc \in {"Ready", "Failed"}

Declared == {config.systematics[i].name : i \in 1..Len(config.systematics)}

DeclaredOfKind(kind) ==
    {config.systematics[i].name :
        i \in {k \in 1..Len(config.systematics) : config.systematics[k].kind = kind}}

Referenced(i) == Range(config.sources[i].systematics)

AllReferenced == UNION {Referenced(i) : i \in 1..Len(config.sources)}

\* C2: setup fails with the unresolved-systematic error, naming the absent
\* systematic and the source that refers to it, whenever some source refers
\* to a name that is not in the systematics table; and when setup completes,
\* everything attached to a source is an entry of the table.
C2_UnresolvedSystematic ==
    SetupDone =>
        /\ ~(AllReferenced \subseteq Declared) =>
              /\ pc = "Failed"
              /\ error.exc = "ValueError"
              /\ error.msg = NOT_DEFINED_MSG
              /\ error.sys \notin Declared
              /\ \E i \in 1..Len(config.sources) :
                    /\ config.sources[i].name = error.source
                    /\ error.sys \in Referenced(i)
        /\ pc = "Ready" =>
              /\ Len(sources) = Len(config.sources)
              /\ \A i \in 1..Len(sources) :
                    /\ Len(sources[i].systematics) = Len(config.sources[i].systematics)
                    /\ Range(sources[i].systematics) \subseteq DOMAIN systematics

C2_Witness ==
    /\ pc = "Failed"
    /\ error.msg = NOT_DEFINED_MSG
    /\ Declared # {}
    /\ Len(config.sources) = 2
    /\ error.source = config.sources[2].name

UnusedIsReported ==
    /\ pc = "Failed"
    /\ error.exc = "ValueError"
    /\ error.msg = NEVER_USED_MSG
    /\ error.sys \in DeclaredOfKind("SourceSystematic") \ AllReferenced

SetupCompletesRight ==
    /\ pc = "Ready" =>
          \A n \in DeclaredOfKind("SourceSystematic") :
              \E i \in 1..Len(sources) : n \in Range(sources[i].systematics)
    /\ (/\ AllReferenced \subseteq Declared
        /\ DeclaredOfKind("SourceSystematic") \subseteq AllReferenced) => pc = "Ready"

\* C3 as stated: setup fails with the unused-systematic error, naming the
\* systematic, whenever the table holds a SourceSystematic no source refers
\* to; when setup completes every SourceSystematic is attached to a source;
\* unreferenced CosmologySystematic and OutputSystematic entries cause no
\* failure.
C3_Original ==
    SetupDone =>
        /\ ~(DeclaredOfKind("SourceSystematic") \subseteq AllReferenced) => UnusedIsReported
        /\ SetupCompletesRight

\* C3 amended: when every name the sources refer to is in the table, setup
\* fails with the unused-systematic error, naming the systematic, whenever
\* the table holds a SourceSystematic no source refers to (a reference to an
\* absent name is reported first, and setup fails either way); when setup
\* completes every SourceSystematic is attached to a source; unreferenced
\* CosmologySystematic and OutputSystematic entries cause no failure.
C3_UnusedSystematic ==
    SetupDone =>
        /\ ~(DeclaredOfKind("SourceSystematic") \subseteq AllReferenced) =>
              /\ pc = "Failed"
              /\ AllReferenced \subseteq Declared => UnusedIsReported
        /\ SetupCompletesRight

C3_Witness ==
    /\ UnusedIsReported
    /\ DeclaredOfKind("OutputSystematic") # {}
    /\ Len(config.sources) > 0
    /\ AllReferenced # {}

\* C4: whenever a run has built its tracers, every systematic of the table
\* holds the values of that run's parameter point.
C4_UpdatedBeforeTracers ==
    "make_tracers" \in Range(run_log) =>
        \A n \in DOMAIN systematics : systematics[n].point = run_point

Specified(cb) == {"sigma_8", "a_s"} \cap DOMAIN cb

NoNeutrinos(cb) == cb["omega_n_rel"].v = 0 /\ cb["omega_n_mass"].v = 0

\* C5: with no neutrino content, a block that has both a_s and sigma_8 as
\* keys, or neither, is rejected; parameters are produced only when exactly
\* one key is present, and they carry that amplitude.
C5_AmplitudeByPresence ==
    (call.fn = "convert_cosmobase_to_ccl" /\ NoNeutrinos(call.arg)) =>
        /\ Cardinality(Specified(call.arg)) # 1 =>
              /\ ~call.out.ok
              /\ call.out.msg \in {BOTH_MSG, NEITHER_MSG}
        /\ call.out.ok =>
              /\ Cardinality(Specified(call.arg)) = 1
              /\ "sigma_8" \in DOMAIN call.arg =>
                    call.out.val.sigma8 = call.arg["sigma_8"] /\ call.out.val.A_s = None
              /\ "a_s" \in DOMAIN call.arg =>
                    call.out.val.A_s = call.arg["a_s"] /\ call.out.val.sigma8 = None

ReadKeys == Range(SubscriptedKeys) \cup {"delta_neff"}

C7_WaNegated ==
    /\ (call.fn = "from_cosmosis_camb" /\ call.out.ok) =>
            call.out.val.wa.v = 0 - call.arg["wa"].v
    /\ (/\ call.fn = "convert_cosmobase_to_ccl"
        /\ NoNeutrinos(call.arg)
        /\ call.out.ok) =>
            call.out.val.wa.v = 0 - call.arg["wa"].v

Middle(val) == {(Len(val.items) + 1) \div 2, (Len(val.items) + 2) \div 2}

\* C9: parse replaces every triple by its middle element, keeps every scalar
\* and keeps the keys; and a list that is not a triple never yields, without
\* an error, a value that is not its middle element.
C9_Fiducial ==
    call.fn = "parse" =>
        /\ (\A p \in DOMAIN call.arg :
                IsList(call.arg[p]) => Len(call.arg[p].items) = 3) => call.out.ok
        /\ call.out.ok =>
              /\ DOMAIN call.out.val = DOMAIN call.arg
              /\ \A p \in DOMAIN call.arg :
                    IF IsList(call.arg[p])
                    THEN \E m \in Middle(call.arg[p]) :
                            call.out.val[p] = call.arg[p].items[m]
                    ELSE call.out.val[p] = call.arg[p]

\* C10: convert_cosmobase_to_ccl produces no parameters, and reports the
\* unsupported neutrinos rather than the amplitude, whenever omega_n_mass or
\* omega_n_rel is nonzero; and from_cosmosis_camb hands on no nonzero
\* neutrino content.
C10_NeutrinosRejected ==
    /\ (/\ call.fn = "convert_cosmobase_to_ccl"
        /\ ~NoNeutrinos(call.arg)) =>
            ~call.out.ok /\ call.out.msg = NEUTRINO_MSG
    /\ (/\ call.fn = "from_cosmosis_camb"
        /\ "omega_nu" \in DOMAIN call.arg
        /\ call.arg["omega_nu"].v # 0) => ~call.out.ok

====
